---- MODULE Spec2Model ----
(***************************************************************************)
(* The server supervisor of the hexdeck menubar shell                      *)
(* (packages/menubar/src-tauri/src/lib.rs): ensure_server_running, run on  *)
(* one thread per trigger, the process-wide SPAWN_ATTEMPTED flag, and the  *)
(* environment it observes: the TCP endpoint, the process table and the    *)
(* PID file ~/.hexdeck/server.pid.                                         *)
(*                                                                         *)
(* Every blocking call of ensure_server_running (a TCP connect, a file     *)
(* read, kill(pid, 0), remove_file, the atomic swap, the atomic stores,    *)
(* the spawn, sleep + connect) is one step of the thread that makes it;    *)
(* threads and the environment interleave between the steps.               *)
(*                                                                         *)
(* The popup window "main" with its tray-click guard is a second, separate *)
(* part of the module (SpecTray).                                          *)
(***************************************************************************)
EXTENDS Integers, FiniteSets

\* ------------------------------------------------------------------ bounds
NWorkers == 2       \* thread slots: ensure_server_running calls that may overlap
NPids == 2          \* process ids of the machine
MaxOpens == 3       \* tray clicks that open the main window

\* ------------------------------------------------------- program constants
POLL_ATTEMPTS == 10 \* `for _ in 0..10`, both waiting loops

Workers == 1..NWorkers
Pids == 1..NPids
NoFile == 0         \* no file at ~/.hexdeck/server.pid
Garbage == -1       \* a file that does not parse as a PidInfo
NoInfo == 0         \* load_pid_info() == None

VARIABLES
    spawnAttempted, \* static SPAWN_ATTEMPTED: AtomicBool
    pc,             \* pc[w]: where thread w stands in ensure_server_running
    polls,          \* polls[w]: iterations of the waiting loop w is in
    info,           \* info[w]: the pid of the PidInfo w holds (NoInfo: None)
    setupDone,      \* the setup hook of run() has run
    homeOk,         \* dirs::home_dir() is Some (fixed for the process)
    listener,       \* the pid bound to 127.0.0.1:SERVER_PORT (0: nobody)
    live,           \* the pids kill(pid, 0) == 0 holds for
    pidFile,        \* content of server.pid: NoFile, Garbage or a pid
    trayClickGuard, \* tray_click_guard: AtomicBool of the setup hook
    visible,        \* the main window is visible
    \* history, read by the properties only
    call,           \* call[w]: what the current (or last) call of w has done
    watch,          \* which of the histories below is recorded: "none", "episode", "sticky"
    ours,           \* "episode": the live pids spawn_server of this process started
    spawnedDown,    \* "episode": spawn_server was invoked in the current unreachable interval
    sticky,         \* "sticky": "err" after a failed spawn until a probe sees the endpoint,
                    \*           "late" after an exhausted post-spawn wait until a first probe sees it
    opens,          \* tray clicks that opened the main window
    suppressed,     \* focus-lost events that did not hide the window
    sinceOpen,      \* the same, since the last tray click that opened it
    lastWin         \* what the last handler of the main window did

vars == <<spawnAttempted, pc, polls, info, setupDone, homeOk, listener, live,
          pidFile, trayClickGuard, visible, call, watch, ours, spawnedDown,
          sticky, opens, suppressed, sinceOpen, lastWin>>

envVars == <<listener, live, pidFile>>
fixedVars == <<setupDone, homeOk, watch>>
histVars == <<ours, spawnedDown, sticky>>
winVars == <<trayClickGuard, visible, opens, suppressed, sinceOpen, lastWin>>

\* call[w].steps    steps of ensure_server_running the call in progress has taken
\* call[w].probes   reachability probes of the call in progress
\*                  (steps and probes are 0 again once the call has returned)
\* call[w].spawns   spawn_server invocations of the call
\* call[w].loaded   the call has called load_pid_info
\* call[w].alive    what is_pid_running said of the record's pid: "none" (not asked), "dead", "live"
\* call[w].deleted  the call has removed the PID file
\* call[w].gate     the swap at the gate: "none" (not reached), "won" (was false), "lost" (was true)
\* call[w].saw      the probe that saw the endpoint: "none", "first", "live" (live-pid loop), "post"
\* call[w].res      what spawn_server met: "none", "no_resource_dir", "no_binary", "exec_failed", "ok"
\* call[w].born     the value of sticky when the call began, ended like sticky
\*                  and when the call returns
FreshCall == [steps |-> 0, probes |-> 0, spawns |-> 0, loaded |-> FALSE,
              alive |-> "none", deleted |-> FALSE, gate |-> "none",
              saw |-> "none", res |-> "none", born |-> "none"]

\* one more step of the call
Stepped(c) == [c EXCEPT !.steps = @ + 1]

\* the history kept of a call that has returned
Returned(c) == [c EXCEPT !.steps = 0, !.probes = 0, !.born = "none"]

SpawnOutcomes == {"no_resource_dir", "no_binary", "exec_failed", "ok"}

\* ----------------------------------------------------- pure parts of the code

\* is_server_reachable(): the connect succeeds iff some process listens
IsServerReachable == listener # 0

\* load_pid_info(): None when the home directory is unknown, the file cannot
\* be read, or it does not parse
LoadPidInfo == IF homeOk /\ pidFile \in Pids THEN pidFile ELSE NoInfo

\* is_pid_running(pid): kill(pid, 0) == 0
IsPidRunning(pid) == pid \in live

\* (mutant) the store of false follows the first probe whatever it found
AfterFirstProbeClear(up) == "clear_fast"

\* (mutant) the fast path is not taken
AfterFirstProbeOn(up) == "load"

\* lines 169-173: where the first probe leads
AfterFirstProbe(up) == IF up THEN "clear_fast" ELSE "load"

\* line 176: if let Some(info) = load_pid_info()
AfterLoad(i) == IF i = NoInfo THEN "gate" ELSE "check"

\* (mutant) the file is removed whatever is_pid_running said
AfterCheckRemove(running) == "remove"

\* (mutant) a dead pid's file is left in place
AfterCheckKeep(running) == IF running THEN "wait" ELSE "gate"

\* lines 177-181: if !is_pid_running(info.pid) { remove } else { wait }
AfterCheck(running) == IF running THEN "wait" ELSE "remove"

\* (mutant) the call gives up when the live-pid loop is exhausted
AfterLivePollGiveUp(up, n) ==
    IF up THEN "done" ELSE IF n < POLL_ATTEMPTS THEN "wait" ELSE "done"

\* (mutant) the live-pid loop does not return on a reachable poll
AfterLivePollOn(up, n) ==
    IF up THEN "gate" ELSE IF n < POLL_ATTEMPTS THEN "wait" ELSE "gate"

\* lines 183-188: one iteration of the live-pid loop, the n-th
AfterLivePoll(up, n) ==
    IF up THEN "done" ELSE IF n < POLL_ATTEMPTS THEN "wait" ELSE "gate"

\* (mutant) the result of the swap is ignored
AfterGateOpen(old) == "spawn"

\* lines 193-195: SPAWN_ATTEMPTED.swap(true) returned old
AfterGate(old) == IF old THEN "done" ELSE "spawn"

\* lines 198-201: spawn_server returned Ok or Err
AfterSpawn(ok) == IF ok THEN "poll" ELSE "report_err"

\* (mutant) the post-spawn loop has no budget
AfterPostPollAgain(up, n) == IF up THEN "clear_post" ELSE "poll"

\* (mutant) the post-spawn loop returns without the store
AfterPostPollReturn(up, n) ==
    IF up THEN "done" ELSE IF n < POLL_ATTEMPTS THEN "poll" ELSE "report_late"

\* lines 203-210: one iteration of the post-spawn loop, the n-th
AfterPostPoll(up, n) ==
    IF up THEN "clear_post" ELSE IF n < POLL_ATTEMPTS THEN "poll" ELSE "report_late"

\* (mutant) the flag is left set after a reachable probe
StoredAfterReachableSet == TRUE

\* lines 171 and 206: the value stored after a reachable probe
StoredAfterReachable == FALSE

\* ------------------------------------------------------------------- history

\* a mark ends with a probe that saw the endpoint: "err" with any probe,
\* "late" with a first probe
Ended(mark, kind) == IF mark = "err" \/ kind = "first" THEN "none" ELSE mark

\* the probe `kind` of some call found the endpoint up or not
NoteProbe(kind, up) ==
    sticky' = IF watch = "sticky" /\ up THEN Ended(sticky, kind) ELSE sticky

\* the calls cs after that probe
Probed(cs, kind, up) ==
    IF watch = "sticky" /\ up
    THEN [w \in Workers |-> [cs[w] EXCEPT !.born = Ended(@, kind)]]
    ELSE cs

\* a spawn failed ("err") or its wait was exhausted ("late")
NoteFailure(kind) ==
    sticky' = IF watch = "sticky" THEN kind ELSE sticky

\* ----------------------------------------------------------------- triggers

\* (mutant) the trigger joins: it starts its thread only when no call runs
BeginJoined(w) ==
    /\ pc[w] \in {"idle", "done"}
    /\ \A u \in Workers : pc[u] \in {"idle", "done"}
    /\ pc' = [pc EXCEPT ![w] = "probe"]
    /\ polls' = [polls EXCEPT ![w] = 0]
    /\ info' = [info EXCEPT ![w] = NoInfo]
    /\ call' = [call EXCEPT ![w] = [FreshCall EXCEPT !.born = sticky]]
    /\ UNCHANGED <<spawnAttempted, homeOk, watch, envVars, ours, spawnedDown, sticky,
                   winVars>>

\* a new thread running ensure_server_running in slot w
Begin(w) ==
    /\ pc[w] \in {"idle", "done"}
    /\ pc' = [pc EXCEPT ![w] = "probe"]
    /\ polls' = [polls EXCEPT ![w] = 0]
    /\ info' = [info EXCEPT ![w] = NoInfo]
    /\ call' = [call EXCEPT ![w] = [FreshCall EXCEPT !.born = sticky]]
    /\ UNCHANGED <<spawnAttempted, homeOk, watch, envVars, ours, spawnedDown, sticky,
                   winVars>>

\* run(), setup hook, lines 317-321: thread::spawn(ensure_server_running)
RunSetup(w) ==
    /\ ~setupDone
    /\ setupDone' = TRUE
    /\ Begin(w)

\* #[tauri::command] ensure_server, lines 213-218: thread::spawn(ensure_server_running)
EnsureServer(w) ==
    /\ setupDone
    /\ UNCHANGED setupDone
    /\ Begin(w)

\* ------------------------------------------------------ ensure_server_running

\* line 169: the first probe
FirstProbe(w) ==
    /\ pc[w] = "probe"
    /\ LET up == IsServerReachable IN
        /\ pc' = [pc EXCEPT ![w] = AfterFirstProbe(up)]
        /\ call' = Probed([call EXCEPT ![w] =
                            [Stepped(@) EXCEPT !.probes = @ + 1,
                                               !.saw = IF up THEN "first" ELSE @]],
                           "first", up)
        /\ NoteProbe("first", up)
    /\ UNCHANGED <<spawnAttempted, polls, info, fixedVars, winVars, envVars, ours,
                   spawnedDown>>

\* lines 171-172: SPAWN_ATTEMPTED.store(false); return
ClearFast(w) ==
    /\ pc[w] = "clear_fast"
    /\ spawnAttempted' = StoredAfterReachable
    /\ pc' = [pc EXCEPT ![w] = "done"]
    /\ call' = [call EXCEPT ![w] = Returned(@)]
    /\ UNCHANGED <<polls, info, fixedVars, winVars, envVars, histVars>>

\* line 176: load_pid_info()
LoadPid(w) ==
    /\ pc[w] = "load"
    /\ info' = [info EXCEPT ![w] = LoadPidInfo]
    /\ pc' = [pc EXCEPT ![w] = AfterLoad(LoadPidInfo)]
    /\ call' = [call EXCEPT ![w] = [Stepped(@) EXCEPT !.loaded = TRUE]]
    /\ UNCHANGED <<spawnAttempted, polls, fixedVars, winVars, envVars, histVars>>

\* line 177: is_pid_running(info.pid); info is not read again
CheckPid(w) ==
    /\ pc[w] = "check"
    /\ LET running == IsPidRunning(info[w]) IN
        /\ pc' = [pc EXCEPT ![w] = AfterCheck(running)]
        /\ call' = [call EXCEPT ![w] =
                    [Stepped(@) EXCEPT !.alive = IF running THEN "live" ELSE "dead"]]
    /\ info' = [info EXCEPT ![w] = NoInfo]
    /\ UNCHANGED <<spawnAttempted, polls, fixedVars, winVars, envVars, histVars>>

\* lines 178-180: remove_file(~/.hexdeck/server.pid), its result ignored;
\* whatever is at the path now is removed
RemovePidFile(w) ==
    /\ pc[w] = "remove"
    /\ pidFile' = IF homeOk THEN NoFile ELSE pidFile
    /\ call' = [call EXCEPT ![w] = [Stepped(@) EXCEPT !.deleted = homeOk]]
    /\ pc' = [pc EXCEPT ![w] = "gate"]
    /\ UNCHANGED <<spawnAttempted, polls, info, fixedVars, winVars, listener, live,
                   histVars>>

\* lines 183-188: sleep(500ms); if is_server_reachable() { return; }
LivePoll(w) ==
    /\ pc[w] = "wait"
    /\ LET up == IsServerReachable
           n == polls[w] + 1
           next == AfterLivePoll(up, n)
           c == [Stepped(call[w]) EXCEPT !.probes = @ + 1,
                                         !.saw = IF up THEN "live" ELSE @] IN
        /\ pc' = [pc EXCEPT ![w] = next]
        /\ polls' = [polls EXCEPT ![w] = IF next = "wait" THEN n ELSE 0]
        /\ call' = Probed([call EXCEPT ![w] = IF next = "done" THEN Returned(c) ELSE c],
                           "live", up)
        /\ NoteProbe("live", up)
    /\ UNCHANGED <<spawnAttempted, info, fixedVars, winVars, envVars, ours, spawnedDown>>

\* lines 193-195: if SPAWN_ATTEMPTED.swap(true) { return; }
Gate(w) ==
    /\ pc[w] = "gate"
    /\ spawnAttempted' = TRUE
    /\ LET next == AfterGate(spawnAttempted)
           c == [Stepped(call[w]) EXCEPT
                    !.gate = IF spawnAttempted THEN "lost" ELSE "won"] IN
        /\ pc' = [pc EXCEPT ![w] = next]
        /\ call' = [call EXCEPT ![w] = IF next = "done" THEN Returned(c) ELSE c]
    /\ UNCHANGED <<polls, info, fixedVars, winVars, envVars, histVars>>

\* lines 119-162 and 198: spawn_server(app). The resource directory, the
\* binary and the exec belong to the environment: each invocation meets one
\* of SpawnOutcomes. A child that was started has a pid no live process has.
SpawnServer(w, outcome, p) ==
    /\ pc[w] = "spawn"
    /\ outcome \in SpawnOutcomes
    /\ IF outcome = "ok"
       THEN /\ p \in Pids \ live
            /\ live' = live \cup {p}
            /\ ours' = IF watch = "episode" THEN ours \cup {p} ELSE ours
       ELSE /\ p = 0
            /\ UNCHANGED <<live, ours>>
    /\ pc' = [pc EXCEPT ![w] = AfterSpawn(outcome = "ok")]
    /\ call' = [call EXCEPT ![w] =
                [Stepped(@) EXCEPT !.spawns = @ + 1, !.res = outcome]]
    /\ spawnedDown' = IF watch = "episode" /\ ~IsServerReachable
                      THEN TRUE ELSE spawnedDown
    /\ IF outcome = "ok" THEN UNCHANGED sticky ELSE NoteFailure("err")
    /\ UNCHANGED <<spawnAttempted, polls, info, fixedVars, winVars, listener, pidFile>>

\* lines 199-200: eprintln!("hexdeck: {e}"); return
ReportErr(w) ==
    /\ pc[w] = "report_err"
    /\ pc' = [pc EXCEPT ![w] = "done"]
    /\ call' = [call EXCEPT ![w] = Returned(@)]
    /\ UNCHANGED <<spawnAttempted, polls, info, fixedVars, winVars, envVars, histVars>>

\* lines 203-209: sleep(500ms); if is_server_reachable() { ... }
PostPoll(w) ==
    /\ pc[w] = "poll"
    /\ LET up == IsServerReachable
           n == polls[w] + 1
           next == AfterPostPoll(up, n) IN
        /\ pc' = [pc EXCEPT ![w] = next]
        /\ polls' = [polls EXCEPT ![w] = IF next = "poll" THEN n ELSE 0]
        /\ call' = Probed([call EXCEPT ![w] =
                            [Stepped(@) EXCEPT !.probes = @ + 1,
                                               !.saw = IF up THEN "post" ELSE @]],
                           "post", up)
        /\ IF next = "report_late" THEN NoteFailure("late")
           ELSE NoteProbe("post", up)
    /\ UNCHANGED <<spawnAttempted, info, fixedVars, winVars, envVars, ours, spawnedDown>>

\* lines 206-207: SPAWN_ATTEMPTED.store(false); return
ClearPost(w) ==
    /\ pc[w] = "clear_post"
    /\ spawnAttempted' = StoredAfterReachable
    /\ pc' = [pc EXCEPT ![w] = "done"]
    /\ call' = [call EXCEPT ![w] = Returned(@)]
    /\ UNCHANGED <<polls, info, fixedVars, winVars, envVars, histVars>>

\* line 210: eprintln!("hexdeck: server spawned but not reachable after 5s")
ReportLate(w) ==
    /\ pc[w] = "report_late"
    /\ pc' = [pc EXCEPT ![w] = "done"]
    /\ call' = [call EXCEPT ![w] = Returned(@)]
    /\ UNCHANGED <<spawnAttempted, polls, info, fixedVars, winVars, envVars, histVars>>

\* ---------------------------------------------------------------- environment
\* The companion server and the rest of the machine, as spec.md describes
\* them: the server writes its PID record and binds the port at its startup;
\* processes start and exit on their own; a pid may be used again.
progVars == <<spawnAttempted, pc, polls, info, call, fixedVars, winVars>>

\* a process appears that this program did not start (a server started by
\* hand or by an earlier instance of the shell, or an unrelated process)
ProcessStarts(p) ==
    /\ p \in Pids \ live
    /\ live' = live \cup {p}
    /\ UNCHANGED <<progVars, listener, pidFile, histVars>>

\* a server process writes its PID record
ServerWritesPid(p) ==
    /\ p \in live
    /\ pidFile # p
    /\ pidFile' = p
    /\ UNCHANGED <<progVars, listener, live, histVars>>

\* a server process binds the port
ServerListens(p) ==
    /\ p \in live
    /\ listener = 0
    /\ listener' = p
    /\ spawnedDown' = FALSE
    /\ UNCHANGED <<progVars, live, pidFile, ours, sticky>>

\* a process exits or is killed; the PID file stays behind
ProcessExits(p) ==
    /\ p \in live
    /\ live' = live \ {p}
    /\ ours' = ours \ {p}
    /\ listener' = IF listener = p THEN 0 ELSE listener
    /\ spawnedDown' = IF listener = p THEN FALSE ELSE spawnedDown
    /\ UNCHANGED <<progVars, pidFile, sticky>>

\* ---------------------------------------------------------------- main window
\* The popup window "main" and the tray-click guard (setup hook of run()).
\* The handlers are callbacks of the event loop: each runs to its end before
\* the next event is handled. show() and hide() take effect. Focus events are
\* sent by the window system, in any order.
supVars == <<spawnAttempted, pc, polls, info, call, fixedVars, envVars, histVars>>

\* window.is_visible().unwrap_or(false), lines 280 and 293
IsVisible(ok) == IF ok THEN visible ELSE FALSE

\* line 283: tray_click_guard.store(true)
GuardAfterTrayOpen == TRUE

\* (mutant) a focus event leaves the guard as it is
GuardAfterFocusKept == trayClickGuard

\* lines 435 and 438: store(false), swap(false)
GuardAfterFocus == FALSE

\* (mutant) a focus loss hides the window whatever the guard held
HidesOnFocusLostAlways(guard) == TRUE

\* lines 438-441: if guard.swap(false) { return; } w.hide()
HidesOnFocusLost(guard) == ~guard

\* lines 274-289 and 362-367: left click on the tray icon
ToggleMainWindowFromTray(ok) ==
    /\ IF IsVisible(ok)
       THEN /\ visible' = FALSE
            /\ lastWin' = "tray_hide"
            /\ UNCHANGED <<trayClickGuard, opens, suppressed, sinceOpen>>
       ELSE /\ opens < MaxOpens
            /\ trayClickGuard' = GuardAfterTrayOpen
            /\ visible' = TRUE
            /\ opens' = opens + 1
            /\ sinceOpen' = 0
            /\ lastWin' = "tray_open"
            /\ UNCHANGED suppressed
    /\ UNCHANGED supVars

\* lines 291-300 and 409-413: the global shortcut
ToggleMainWindowFromShortcut(ok) ==
    /\ IF IsVisible(ok)
       THEN visible' = FALSE /\ lastWin' = "shortcut_hide"
       ELSE visible' = TRUE /\ lastWin' = "shortcut_show"
    /\ UNCHANGED <<trayClickGuard, opens, suppressed, sinceOpen, supVars>>

\* lines 432-435: WindowEvent::Focused(true)
FocusGained ==
    /\ trayClickGuard' = GuardAfterFocus
    /\ lastWin' = "focus_gained"
    /\ UNCHANGED <<visible, opens, suppressed, sinceOpen, supVars>>

\* lines 436-442: WindowEvent::Focused(false)
FocusLost ==
    /\ trayClickGuard' = GuardAfterFocus
    /\ IF HidesOnFocusLost(trayClickGuard)
       THEN /\ visible' = FALSE
            /\ lastWin' = "focus_lost_hidden"
            /\ UNCHANGED <<suppressed, sinceOpen>>
       ELSE /\ suppressed' = suppressed + 1
            /\ sinceOpen' = sinceOpen + 1
            /\ lastWin' = "focus_lost_kept"
            /\ UNCHANGED visible
    /\ UNCHANGED <<opens, supVars>>

\* lines 328-329: the guard starts false; the window is shown or not
WindowAtStart(shown) ==
    /\ trayClickGuard = FALSE
    /\ visible = shown
    /\ opens = 0
    /\ suppressed = 0
    /\ sinceOpen = 0
    /\ lastWin = "none"

\* ---------------------------------------------------------------------- spec
\* The process has started: nothing attempted, no thread yet; the machine is
\* in any state a previous run may have left it in.
InitWatching(h) ==
    /\ spawnAttempted = FALSE
    /\ pc = [w \in Workers |-> "idle"]
    /\ polls = [w \in Workers |-> 0]
    /\ info = [w \in Workers |-> NoInfo]
    /\ setupDone = FALSE
    /\ homeOk \in BOOLEAN
    /\ live \in SUBSET Pids
    /\ listener \in {0} \cup live
    /\ pidFile \in {NoFile, Garbage} \cup Pids
    /\ call = [w \in Workers |-> FreshCall]
    /\ watch = h
    /\ ours = {}
    /\ spawnedDown = FALSE
    /\ sticky = "none"
    /\ WindowAtStart(FALSE)

Init == InitWatching("none")
InitEpisode == InitWatching("episode")
InitSticky == InitWatching("sticky")

\* a step of the thread in slot w
Step(w) ==
    \/ FirstProbe(w)
    \/ ClearFast(w)
    \/ LoadPid(w)
    \/ CheckPid(w)
    \/ RemovePidFile(w)
    \/ LivePoll(w)
    \/ Gate(w)
    \/ \E o \in SpawnOutcomes : \E p \in Pids \cup {0} : SpawnServer(w, o, p)
    \/ ReportErr(w)
    \/ PostPoll(w)
    \/ ClearPost(w)
    \/ ReportLate(w)

Next ==
    \/ \E w \in Workers : RunSetup(w)
    \/ \E w \in Workers : EnsureServer(w)
    \/ \E w \in Workers : Step(w)
    \/ \E p \in Pids : ProcessStarts(p)
    \/ \E p \in Pids : ServerWritesPid(p)
    \/ \E p \in Pids : ServerListens(p)
    \/ \E p \in Pids : ProcessExits(p)

Spec == Init /\ [][Next]_vars
SpecEpisode == InitEpisode /\ [][Next]_vars
SpecSticky == InitSticky /\ [][Next]_vars

\* The main window on its own: the supervisor and the window share no state,
\* so the window is checked with the supervisor at rest.
InitTray ==
    /\ spawnAttempted = FALSE
    /\ pc = [w \in Workers |-> "idle"]
    /\ polls = [w \in Workers |-> 0]
    /\ info = [w \in Workers |-> NoInfo]
    /\ setupDone = TRUE
    /\ homeOk = TRUE
    /\ live = {}
    /\ listener = 0
    /\ pidFile = NoFile
    /\ call = [w \in Workers |-> FreshCall]
    /\ watch = "none"
    /\ ours = {}
    /\ spawnedDown = FALSE
    /\ sticky = "none"
    /\ \E shown \in BOOLEAN : WindowAtStart(shown)

NextTray ==
    \/ \E ok \in BOOLEAN : ToggleMainWindowFromTray(ok)
    \/ \E ok \in BOOLEAN : ToggleMainWindowFromShortcut(ok)
    \/ FocusGained
    \/ FocusLost

SpecTray == InitTray /\ [][NextTray]_vars


\* ------------------------------------------------------------------ properties
Running(w) == pc[w] \notin {"idle", "done"}

\* this step is the call of w invoking spawn_server
SpawnInvoked(w) == pc[w] = "spawn" /\ call'[w].spawns = call[w].spawns + 1

\* this step is the call of w returning
Returns(w) == Running(w) /\ pc'[w] = "done"

SpawnFailures == SpawnOutcomes \ {"ok"}

\* C1 -- the gate. Under every interleaving, spawn_server is invoked only by a
\* call whose swap at the gate found the flag false; a call whose swap finds
\* it true returns at once, without spawning or polling, and the flag stays
\* true; no call is admitted in a step that begins and ends with the flag true
\* (so the calls reaching the gate while the flag stays true add no spawn to
\* the one of the call that set it).
C1_State ==
    \A w \in Workers :
        /\ (pc[w] \in {"spawn", "report_err", "poll", "clear_post", "report_late"}
                \/ call[w].spawns > 0) => call[w].gate = "won"
        /\ call[w].gate = "lost" =>
                pc[w] = "done" /\ call[w].spawns = 0 /\ call[w].res = "none"
C1_Step ==
    \A w \in Workers :
        /\ SpawnInvoked(w) => call[w].gate = "won"
        /\ (pc[w] = "gate" /\ spawnAttempted /\ pc'[w] # "gate") =>
                /\ pc'[w] = "done"
                /\ spawnAttempted'
                /\ call'[w].spawns = 0
                /\ UNCHANGED envVars
        /\ (spawnAttempted /\ spawnAttempted') => ~(pc[w] = "gate" /\ pc'[w] = "spawn")
C1_GateAdmitsOnlyTheSetter == [](C1_State) /\ [][C1_Step]_vars

\* C1 witness: one call was admitted and spawned, another was turned away.
C1_Witness ==
    \E w, u \in Workers :
        /\ call[w].gate = "won" /\ call[w].spawns = 1
        /\ call[u].gate = "lost" /\ pc[u] = "done"

\* C3 -- the fast path. A call whose first probe finds the endpoint reachable
\* reads no PID record, removes no file, invokes no spawn and probes no more:
\* its one further step stores false into the flag, whatever it held, and
\* returns; neither step changes the PID file or the process table.
C3_State ==
    \A w \in Workers :
        call[w].saw = "first" =>
            /\ pc[w] \in {"clear_fast", "done"}
            /\ ~call[w].loaded /\ call[w].alive = "none" /\ ~call[w].deleted
            /\ call[w].gate = "none" /\ call[w].spawns = 0
            /\ pc[w] = "clear_fast" => call[w].probes = 1 /\ call[w].steps = 1
C3_Step ==
    \A w \in Workers :
        /\ (pc[w] = "probe" /\ IsServerReachable /\ pc'[w] # "probe") =>
                pc'[w] = "clear_fast" /\ UNCHANGED envVars
        /\ (pc[w] = "clear_fast" /\ pc'[w] # "clear_fast") =>
                pc'[w] = "done" /\ spawnAttempted' = FALSE /\ UNCHANGED envVars
C3_ReachableFastPath == [](C3_State) /\ [][C3_Step]_vars

\* C3 witness: a call returned through the fast path after another call's
\* failed spawn had left the flag true, and the flag is false.
C3_Witness ==
    \E w, u \in Workers :
        /\ pc[w] = "done" /\ call[w].saw = "first" /\ ~spawnAttempted
        /\ pc[u] = "done" /\ call[u].res \in SpawnFailures

\* C2 -- one spawn per failure episode. Under every interleaving: within one
\* maximal interval in which the endpoint is unreachable at most one spawn is
\* invoked, and no spawn is invoked while a server that an earlier spawn of
\* this process started is listening. (Checked under SpecEpisode.)
C2_OneSpawnPerEpisode ==
    [][\A w \in Workers :
        SpawnInvoked(w) =>
            IF IsServerReachable THEN listener \notin ours ELSE ~spawnedDown]_vars

\* this step is spawn_server failing in the call of w, or the call reporting it
FailsOrReports(w) ==
    \/ pc[w] = "spawn" /\ pc'[w] = "report_err"
    \/ pc[w] = "report_err" /\ pc'[w] = "done"

C5_NoSpawnAfterFailedSpawn ==
    [][\A w \in Workers :
        /\ FailsOrReports(w) => UNCHANGED spawnAttempted
        /\ (pc[w] = "report_err" /\ pc'[w] # "report_err") => pc'[w] = "done"
        /\ (pc[w] = "spawn" /\ pc'[w] = "report_err" /\ call[w].alive = "dead") =>
                call[w].deleted /\ call'[w].spawns = 1
        /\ SpawnInvoked(w) => call[w].born # "err"]_vars

\* C6 -- after a successful spawn. A call whose post-spawn poll saw the
\* endpoint has made at most 10 such polls after exactly one successful spawn
\* it was admitted to; its next step stores false and returns. From then on
\* the flag becomes true only by a call passing the gate, and a call that
\* evaluates the gate while the flag is false is admitted and invokes
\* spawn_server next: after a kill the next call to reach the gate spawns.
C6_State ==
    \A w \in Workers :
        /\ pc[w] = "poll" => polls[w] < POLL_ATTEMPTS /\ call[w].res = "ok"
        /\ call[w].saw = "post" =>
                call[w].spawns = 1 /\ call[w].res = "ok" /\ call[w].gate = "won"
        /\ pc[w] = "clear_post" => call[w].saw = "post"

C6_Step ==
    /\ \A w \in Workers :
        /\ (pc[w] = "poll" /\ pc'[w] # "poll" /\ call'[w].saw = "post") =>
                pc'[w] = "clear_post"
        /\ (pc[w] = "clear_post" /\ pc'[w] # "clear_post") =>
                pc'[w] = "done" /\ spawnAttempted' = FALSE
        /\ (pc[w] = "gate" /\ pc'[w] # "gate" /\ ~spawnAttempted) =>
                pc'[w] = "spawn" /\ spawnAttempted'
        /\ (pc[w] = "spawn" /\ pc'[w] # "spawn") =>
                call'[w].spawns = call[w].spawns + 1
    /\ (~spawnAttempted /\ spawnAttempted') =>
            \E w \in Workers : pc[w] = "gate" /\ pc'[w] = "spawn"

C6_SuccessfulSpawnReopensGate == [](C6_State) /\ [][C6_Step]_vars

\* one call has returned from a reachable post-spawn poll, the endpoint is
\* unreachable again, and another call, admitted at the gate since, has spawned
C6_Witness ==
    \E w, u \in Workers :
        /\ w # u
        /\ pc[w] = "done" /\ call[w].saw = "post" /\ call[w].alive = "none"
        /\ ~IsServerReachable
        /\ spawnAttempted
        /\ pc[u] = "poll" /\ call[u].gate = "won" /\ call[u].spawns = 1

\* C7 -- a call that found the PID record's pid dead has removed the PID file
\* by the time it evaluates the gate, whether the swap then admits it or not.
C7_DeadPidFileRemovedBeforeGate ==
    \A w \in Workers :
        /\ call[w].alive = "dead" /\ (pc[w] = "gate" \/ call[w].gate # "none") =>
                call[w].deleted
        /\ call[w].deleted => call[w].alive = "dead"
        /\ pc[w] = "remove" => call[w].alive = "dead" /\ call[w].gate = "none"

\* one call was admitted and one rejected, both after removing the file
C7_Witness ==
    \E w, u \in Workers :
        /\ call[w].alive = "dead" /\ call[w].deleted /\ call[w].gate = "won"
        /\ call[u].alive = "dead" /\ call[u].deleted /\ call[u].gate = "lost"

\* C8 -- a call that saw the endpoint at a poll of the live-pid loop has
\* returned at that poll: no spawn, PID file not removed, gate not evaluated;
\* and the loop is at most 10 polls, each one probe after the first.
C8_LivePidWaitReturns ==
    \A w \in Workers :
        /\ call[w].saw = "live" =>
                /\ pc[w] = "done"
                /\ call[w].alive = "live"
                /\ call[w].spawns = 0
                /\ ~call[w].deleted
                /\ call[w].gate = "none"
        /\ pc[w] = "wait" =>
                /\ polls[w] < POLL_ATTEMPTS
                /\ call[w].probes = 1 + polls[w]
                /\ call[w].alive = "live"
                /\ call[w].gate = "none" /\ call[w].spawns = 0

C8_Witness ==
    \E w \in Workers : call[w].saw = "live" /\ pc[w] = "done"

\* the most steps a call takes: first probe, load, check, 10 polls, gate,
\* spawn, 10 polls, report
MaxSteps == 6 + 2 * POLL_ATTEMPTS

\* C9 -- every call ends: a running call can always take its next step, it
\* takes at most MaxSteps steps, it makes at most 1 + 10 + 10 probes and at
\* most one spawn, and neither loop goes beyond its 10 polls.
C9_CallTerminates ==
    \A w \in Workers :
        /\ polls[w] < POLL_ATTEMPTS
        /\ call[w].probes <= 1 + 2 * POLL_ATTEMPTS
        /\ call[w].spawns <= 1
        /\ call[w].steps <= MaxSteps
        /\ Running(w) => ENABLED Step(w)
        /\ ~Running(w) => call[w].steps = 0

\* a call that used every probe of both loops
C9_Witness ==
    \E w \in Workers :
        /\ pc[w] = "report_late"
        /\ call[w].probes = 1 + 2 * POLL_ATTEMPTS
        /\ call[w].spawns = 1

\* C10 -- after an exhausted post-spawn wait. The call whose 10 post-spawn
\* polls all miss has invoked exactly one spawn, reports and returns without
\* touching the flag and without another spawn; and no call begun after that,
\* and before a first probe of some call has seen the endpoint reachable,
\* invokes a spawn. (Checked under SpecSticky.)
C10_NoSpawnAfterExhaustedWait ==
    [][\A w \in Workers :
        /\ (pc[w] = "poll" /\ pc'[w] = "report_late") =>
                call'[w].spawns = 1 /\ UNCHANGED spawnAttempted
        /\ (pc[w] = "report_late" /\ pc'[w] # "report_late") =>
                pc'[w] = "done" /\ UNCHANGED <<spawnAttempted, envVars>>
        /\ SpawnInvoked(w) => call[w].born # "late"]_vars

\* C11 -- unresolvable environment. A call that finds the per-user directory
\* (the home directory) unresolvable when it reads the PID record, or whose
\* spawn_server finds the resource directory unresolvable, is aborted: it
\* reports and returns, starting no process and trying nothing again; with
\* the home directory unresolvable spawn_server is not invoked at all.
C11_UnresolvableEnvironmentAborts ==
    [][\A w \in Workers :
        /\ (pc[w] = "load" /\ ~homeOk /\ pc'[w] # "load") =>
                pc'[w] \in {"report_err", "done"}
        /\ SpawnInvoked(w) => homeOk
        /\ (pc[w] = "spawn" /\ call'[w].res = "no_resource_dir") =>
                pc'[w] = "report_err" /\ UNCHANGED <<spawnAttempted, envVars>>
        /\ (pc[w] = "report_err" /\ pc'[w] # "report_err") =>
                pc'[w] = "done" /\ call'[w].spawns = 1
                    /\ UNCHANGED <<spawnAttempted, envVars>>]_vars

\* this step is a trigger (the setup hook or an ensure_server command)
\* starting the call of w
Triggers(w) == pc[w] \in {"idle", "done"} /\ pc'[w] = "probe"

\* C12 -- the trigger never blocks. The setup hook, and after it an
\* ensure_server command, can start a call in any free thread slot whatever
\* the other threads are doing, polling loops included; the trigger is one
\* step that takes no step of ensure_server_running: the new call has made no
\* probe, and the flag, the machine and the other threads are as they were.
C12_State ==
    \A w \in Workers :
        /\ ~setupDone => ENABLED RunSetup(w)
        /\ (setupDone /\ ~Running(w)) => ENABLED EnsureServer(w)
        /\ pc[w] = "probe" =>
                call[w].steps = 0 /\ call[w].probes = 0 /\ polls[w] = 0

C12_Step ==
    \A w \in Workers :
        Triggers(w) =>
            /\ setupDone'
            /\ call'[w].steps = 0 /\ call'[w].probes = 0 /\ call'[w].saw = "none"
            /\ \A u \in Workers \ {w} : pc'[u] = pc[u] /\ call'[u] = call[u]
            /\ UNCHANGED <<spawnAttempted, envVars>>

C12_TriggerNeverBlocks == [](C12_State) /\ [][C12_Step]_vars

\* a call has just been started while another is inside a polling loop
C12_Witness ==
    \E w, u \in Workers :
        /\ pc[w] = "probe" /\ call[w].steps = 0
        /\ pc[u] \in {"wait", "poll"} /\ polls[u] > 0

\* C13 -- who writes the flag. It goes from true to false only in the step
\* after a probe of the same call saw the endpoint (the first probe or a
\* post-spawn poll); it goes from false to true only in a swap at the gate
\* that is followed by the spawn; a failed spawn, its report, an exhausted
\* loop, a rejected swap and the removal of the PID file leave it as it is.
C13_State ==
    \A w \in Workers :
        /\ pc[w] = "clear_fast" => call[w].saw = "first" /\ call[w].probes = 1
        /\ pc[w] = "clear_post" => call[w].saw = "post"

C13_Step ==
    /\ (spawnAttempted /\ ~spawnAttempted') =>
            \E w \in Workers :
                /\ pc[w] \in {"clear_fast", "clear_post"}
                /\ call[w].saw \in {"first", "post"}
                /\ pc'[w] = "done"
    /\ (~spawnAttempted /\ spawnAttempted') =>
            \E w \in Workers : pc[w] = "gate" /\ pc'[w] = "spawn"
    /\ \A w \in Workers :
        (/\ pc[w] \in {"probe", "load", "check", "remove", "wait", "spawn",
                       "report_err", "poll", "report_late"}
         /\ call'[w] # call[w]) => UNCHANGED spawnAttempted
    /\ \A w \in Workers :
        (pc[w] = "gate" /\ pc'[w] = "done") => spawnAttempted /\ spawnAttempted'

C13_FlagWrittenAtGateAndAfterReachable == [](C13_State) /\ [][C13_Step]_vars

\* the flag is false after a post-spawn poll saw the endpoint, while another
\* call's wait was exhausted
C13_Witness ==
    \E w, u \in Workers :
        /\ pc[w] = "done" /\ call[w].saw = "post" /\ ~spawnAttempted
        /\ call[u].res = "ok" /\ call[u].saw = "none" /\ pc[u] \in {"report_late", "done"}

\* C14 -- the live-pid loop exhausted. When the 10th poll of the live-pid
\* loop also finds the endpoint unreachable the call goes to the gate; it has
\* made 11 probes and has not removed the PID file, and no later step of it
\* changes the file; a swap that finds the flag false sets it and leads to
\* spawn_server, whether the recorded process is still alive or not.
C14_State ==
    \A w \in Workers :
        call[w].alive = "live" =>
            /\ ~call[w].deleted
            /\ pc[w] = "gate" => call[w].probes = 1 + POLL_ATTEMPTS /\ call[w].saw = "none"
            /\ call[w].gate # "none" => call[w].saw # "live"

C14_Step ==
    \A w \in Workers :
        /\ (pc[w] = "wait" /\ polls[w] = POLL_ATTEMPTS - 1 /\ ~IsServerReachable
                /\ call'[w] # call[w]) =>
                pc'[w] = "gate" /\ UNCHANGED <<spawnAttempted, envVars>>
        /\ (pc[w] = "gate" /\ call[w].alive = "live" /\ ~spawnAttempted
                /\ call'[w] # call[w]) =>
                pc'[w] = "spawn" /\ spawnAttempted' /\ UNCHANGED envVars
        /\ (pc[w] = "spawn" /\ call[w].alive = "live" /\ call'[w] # call[w]) =>
                call'[w].spawns = 1 /\ UNCHANGED pidFile
        /\ (call[w].alive = "live" /\ call'[w] # call[w] /\ pc'[w] # "probe") =>
                UNCHANGED pidFile

C14_LivePidWaitExhaustedSpawns == [](C14_State) /\ [][C14_Step]_vars

\* a call has spawned after its live-pid loop was exhausted; the PID file is
\* in place and the process it names is still alive
C14_Witness ==
    \E w \in Workers :
        /\ call[w].alive = "live" /\ call[w].gate = "won" /\ call[w].spawns = 1
        /\ pc[w] = "poll"
        /\ homeOk /\ pidFile \in live

\* C15 -- the supervisor and the PID file. A step of the program changes the
\* PID file only by removing it, and only as the step of a call that is
\* past an unreachable first probe, has read a record and found its pid not
\* alive; a call that found the pid of its record alive removes nothing.
\* (The file is written by environment steps only, which leave the program's
\* state unchanged.)
C15_State ==
    \A w \in Workers :
        /\ call[w].deleted => call[w].loaded /\ call[w].alive = "dead"
        /\ call[w].alive = "live" => ~call[w].deleted /\ pc[w] # "remove"
        /\ pc[w] = "remove" =>
                /\ call[w].loaded /\ call[w].alive = "dead"
                /\ call[w].probes = 1 /\ call[w].saw = "none"

C15_Step ==
    pidFile' # pidFile =>
        \/ UNCHANGED progVars
        \/ /\ pidFile' = NoFile
           /\ \E w \in Workers :
                /\ pc[w] = "remove" /\ pc'[w] = "gate"
                /\ call[w].alive = "dead"
                /\ call'[w].deleted

C15_PidFileOnlyDeletedWhenStale == [](C15_State) /\ [][C15_Step]_vars

\* one call has removed the file of a dead pid; another, whose record named
\* a live pid, is at the gate and has removed nothing
C15_Witness ==
    \E w, u \in Workers :
        /\ call[w].deleted /\ pidFile = NoFile
        /\ call[u].alive = "live" /\ pc[u] = "gate" /\ ~call[u].deleted

\* C16 -- no stale file at the spawn logic. With the home directory known,
\* the reconciliation of a call that found no record, or a record with a pid
\* that is not alive, ends with no file at ~/.hexdeck/server.pid: the step
\* that takes the call to the gate leaves the path empty, a file that could
\* not be read or parsed included.
C16_StaleFileGoneAtSpawnLogic ==
    [][\A w \in Workers :
        (homeOk /\ pc[w] \in {"load", "remove"} /\ pc'[w] = "gate") =>
            pidFile' = NoFile]_vars

\* C17 -- the tray-click guard. The guard becomes true only by a tray click
\* that opens the window; it is false after every focus event; a focus-lost
\* event that finds it false hides the window, one that finds it true leaves
\* the window as it is; so between two tray clicks that open the window at
\* most one focus-lost event fails to hide it. (Checked under SpecTray.)
C17_State ==
    /\ lastWin \in {"focus_gained", "focus_lost_hidden", "focus_lost_kept"} =>
            ~trayClickGuard
    /\ lastWin = "tray_open" => trayClickGuard /\ visible
    /\ lastWin = "focus_lost_hidden" => ~visible
    /\ sinceOpen <= 1
    /\ suppressed <= opens
    /\ trayClickGuard => sinceOpen = 0 /\ opens > 0

C17_Step ==
    /\ (~trayClickGuard /\ trayClickGuard') =>
            lastWin' = "tray_open" /\ opens' = opens + 1 /\ visible'
    /\ lastWin' = "focus_lost_kept" =>
            trayClickGuard /\ ~trayClickGuard' /\ UNCHANGED visible
                /\ sinceOpen = 0 /\ sinceOpen' = 1
    /\ (lastWin' = "focus_lost_hidden" /\ lastWin' # lastWin) =>
            ~trayClickGuard /\ ~visible'
    /\ (lastWin' = "focus_gained" /\ lastWin' # lastWin) =>
            ~trayClickGuard' /\ UNCHANGED visible
    /\ (visible /\ ~visible') =>
            lastWin' \in {"tray_hide", "shortcut_hide", "focus_lost_hidden"}

C17_TrayClickGuard == [](C17_State) /\ [][C17_Step]_vars

\* a tray click opened the window, one focus loss was let pass, and the next
\* focus loss has hidden the window
C17_Witness ==
    /\ opens >= 1 /\ suppressed >= 1 /\ sinceOpen = 1
    /\ lastWin = "focus_lost_hidden" /\ ~visible /\ ~trayClickGuard

====
